---- MODULE Spec2Model ----
(***************************************************************************)
(* Model of pr_agent/git_providers/gitlab_provider.py: the GitLab provider *)
(* session (lazy diff-file catalog, inline comments, code suggestions) and *)
(* the line scan of find_in_file.  Text is modelled as sequences of        *)
(* one-character strings, so substring search, lstrip, splitlines and the  *)
(* hunk-header regular expression are computed as the code computes them.  *)
(***************************************************************************)
EXTENDS Integers, Sequences, FiniteSets, TLC

VARIABLES changes, diff_files, fetches, discussions, last_call,
          patch, reference, patch_lines, line_idx, scan, pc

vars == <<changes, diff_files, fetches, discussions, last_call,
          patch, reference, patch_lines, line_idx, scan, pc>>

session_vars == <<changes, diff_files, fetches, discussions, last_call>>

scan_vars == <<patch, reference, patch_lines, line_idx, scan, pc>>

None == "None"

\* the element of a one-element set: {e(x) : x \in {v}} computes v once
Only(S) == CHOOSE x \in S : TRUE

\* self.diff_files: None until get_diff_files has run, then the list it built
NoDiffFiles == [is_none |-> TRUE, files |-> <<>>]

DiffFiles(files) == [is_none |-> FALSE, files |-> files]

\* the value of a target_file variable that holds None
NoFile ==
    [base_file |-> None, head_file |-> None, patch |-> None, filename |-> None,
     edit_type |-> None, old_filename |-> None]

(***************************************************************************)
(* Bounds                                                                  *)
(***************************************************************************)
MaxPatchLen == 3

MaxDiscussions == 2

MaxSuggestions == 2

MaxFetches == 3

(***************************************************************************)
(* Text: lines of patches and reference texts                              *)
(***************************************************************************)
HeaderA == <<"@", "@", " ", "-", "3", " ", "+", "5", ",", "2", " ", "@", "@", " ", "x">>

HeaderB == <<"@", "@", " ", "-", "1", "0", ",", "2", " ", "+", "2", "0", ",", "3", " ", "@", "@">>

BadHeader == <<"@", "@", " ", "-", "3", ",", "x", " ", "+", "5", " ", "@", "@">>

CtxLine == <<" ", "x">>

AddLine == <<"+", "x">>

DelLine == <<"-", "x">>

OtherLine == <<"\\", " ", "x">>

EmptyLine == <<>>

ExHeader == <<"@", "@", " ", "-", "1", ",", "3", " ", "+", "1", ",", "4", " ", "@", "@">>

ExCtx1 == <<" ", "c", "o", "n", "t", "e", "x", "t", "1">>

ExOld == <<"-", "o", "l", "d", " ", "l", "i", "n", "e">>

ExNewA == <<"+", "n", "e", "w", " ", "l", "i", "n", "e", " ", "A">>

ExNewB == <<"+", "n", "e", "w", " ", "l", "i", "n", "e", " ", "B">>

ExCtx2 == <<" ", "c", "o", "n", "t", "e", "x", "t", "2">>

RefX == <<"x">>

RefPlusX == <<"+", "x">>

RefMinusX == <<"-", "x">>

RefPlusSpX == <<"+", " ", "x">>

RefZ == <<"z">>

RefPlus == <<"+">>

RefContext1 == <<"c", "o", "n", "t", "e", "x", "t", "1">>

RefPlusContext1 == <<"+", "c", "o", "n", "t", "e", "x", "t", "1">>

RefOldLine == <<"o", "l", "d", " ", "l", "i", "n", "e">>

RefNewLineA == <<"n", "e", "w", " ", "l", "i", "n", "e", " ", "A">>

RefMissing == <<"m", "i", "s", "s", "i", "n", "g", " ", "t", "e", "x", "t">>

LinePool == {HeaderA, HeaderB, BadHeader, CtxLine, AddLine, DelLine, OtherLine, EmptyLine}

RefPool == {RefX, RefPlusX, RefMinusX, RefPlusSpX, RefZ, RefPlus}

ExampleLines == <<ExHeader, ExCtx1, ExOld, ExNewA, ExNewB, ExCtx2>>

ExampleRefs == {RefContext1, RefPlusContext1, RefOldLine, RefNewLineA, RefMissing}

(***************************************************************************)
(* String primitives                                                       *)
(***************************************************************************)
RECURSIVE SeqsUpTo(_, _)
SeqsUpTo(S, n) ==
    IF n = 0 THEN {<<>>}
    ELSE LET shorter == SeqsUpTo(S, n - 1)
         IN  shorter \cup {Append(s, x) : s \in {t \in shorter : Len(t) = n - 1}, x \in S}

NL == "\n"

Whitespace == {" ", "\t", NL}

RECURSIVE JoinLines(_)
JoinLines(lines) ==
    IF lines = <<>> THEN <<>>
    ELSE IF Len(lines) = 1 THEN lines[1]
    ELSE lines[1] \o <<NL>> \o JoinLines(Tail(lines))

\* splitlines() of a str (sep a line feed) or of a bytes value (sep 10): a
\* trailing line break does not open a last empty line
RECURSIVE SplitFrom(_, _, _, _, _)
SplitFrom(s, sep, i, cur, acc) ==
    IF i > Len(s) THEN (IF cur = <<>> THEN acc ELSE Append(acc, cur))
    ELSE IF s[i] = sep THEN SplitFrom(s, sep, i + 1, <<>>, Append(acc, cur))
    ELSE SplitFrom(s, sep, i + 1, Append(cur, s[i]), acc)

splitlines(s) == SplitFrom(s, NL, 1, <<>>, <<>>)

\* the Python operator `sub in s`
Contains(s, sub) ==
    \E i \in 0..(Len(s) - Len(sub)) : SubSeq(s, i + 1, i + Len(sub)) = sub

startswith(s, prefix) ==
    Len(s) >= Len(prefix) /\ SubSeq(s, 1, Len(prefix)) = prefix

RECURSIVE lstrip(_)
lstrip(s) ==
    IF s # <<>> /\ s[1] \in Whitespace THEN lstrip(Tail(s)) ELSE s

Digits == {"0", "1", "2", "3", "4", "5", "6", "7", "8", "9"}

DigitVal(c) ==
    CASE c = "0" -> 0 [] c = "1" -> 1 [] c = "2" -> 2 [] c = "3" -> 3
      [] c = "4" -> 4 [] c = "5" -> 5 [] c = "6" -> 6 [] c = "7" -> 7
      [] c = "8" -> 8 [] c = "9" -> 9

\* int() of a string of decimal digits
RECURSIVE int(_)
int(ds) ==
    IF ds = <<>> THEN 0 ELSE 10 * int(SubSeq(ds, 1, Len(ds) - 1)) + DigitVal(ds[Len(ds)])

\* first index at or after i that does not hold a digit (the greedy \d+)
RECURSIVE DigitsEnd(_, _)
DigitsEnd(s, i) ==
    IF i <= Len(s) /\ s[i] \in Digits THEN DigitsEnd(s, i + 1) ELSE i

HasAt(s, i, lit) ==
    i + Len(lit) - 1 <= Len(s) /\ SubSeq(s, i, i + Len(lit) - 1) = lit

\* the optional group (?:,(\d+))? tried at index i: the index after it
OptSizeEnd(s, i) ==
    IF HasAt(s, i, <<",">>) /\ DigitsEnd(s, i + 1) > i + 1
    THEN DigitsEnd(s, i + 1) ELSE i

\* RE_HUNK_HEADER.match(line): ^@@ -(\d+)(?:,(\d+))? \+(\d+)(?:,(\d+))? @@[ ]?(.*)
RE_HUNK_HEADER(line) ==
    LET p1 == 5
        e1 == DigitsEnd(line, p1)
        o1 == OptSizeEnd(line, e1)
        p2 == o1 + 2
        e2 == DigitsEnd(line, p2)
        o2 == OptSizeEnd(line, e2)
        ok == /\ HasAt(line, 1, <<"@", "@", " ", "-">>)
              /\ e1 > p1
              /\ HasAt(line, o1, <<" ", "+">>)
              /\ e2 > p2
              /\ HasAt(line, o2, <<" ", "@", "@">>)
    IN  IF ok
        THEN [matched |-> TRUE,
              start_old |-> SubSeq(line, p1, e1 - 1),
              start_new |-> SubSeq(line, p2, e2 - 1)]
        ELSE [matched |-> FALSE, start_old |-> <<>>, start_new |-> <<>>]

(***************************************************************************)
(* find_in_file: the scan of one file's patch                              *)
(***************************************************************************)
\* get_edit_type, for a non-empty text (text[0] raises IndexError on '')
get_edit_type(text) ==
    IF text[1] = "-" THEN "deletion"
    ELSE IF text[1] = "+" THEN "addition"
    ELSE "context"

ScanInit ==
    [edit_type |-> "context", found |-> FALSE,
     source_line_no |-> 0, target_line_no |-> 0, status |-> "scan"]

\* a matched hunk header: both counters are set from its groups
HeaderCounters_Swapped(st, m) ==
    [st EXCEPT !.source_line_no = int(m.start_old),
               !.target_line_no = int(m.start_old)]

HeaderCounters(st, m) ==
    [st EXCEPT !.source_line_no = int(m.start_old),
               !.target_line_no = int(m.start_new)]

\* the counter updates of a line that is not a '@@' line
AdvanceCounters_DelBoth(st, line) ==
    IF startswith(line, <<"-">>) \/ startswith(line, <<" ">>)
    THEN [st EXCEPT !.source_line_no = @ + 1, !.target_line_no = @ + 1]
    ELSE IF startswith(line, <<"+">>)
    THEN [st EXCEPT !.target_line_no = @ + 1]
    ELSE st

AdvanceCounters(st, line) ==
    IF startswith(line, <<"-">>)
    THEN [st EXCEPT !.source_line_no = @ + 1]
    ELSE IF startswith(line, <<"+">>)
    THEN [st EXCEPT !.target_line_no = @ + 1]
    ELSE IF startswith(line, <<" ">>)
    THEN [st EXCEPT !.source_line_no = @ + 1, !.target_line_no = @ + 1]
    ELSE st

\* the edit type recorded on a match
MatchEditType_OfReference(line, ref) == get_edit_type(ref)

MatchEditType(line, ref) == get_edit_type(line)

\* found = True; edit_type = self.get_edit_type(line); break
Matched(st, line, ref) ==
    IF line = <<>>
    THEN [st EXCEPT !.found = TRUE, !.status = "raised"]
    ELSE [st EXCEPT !.found = TRUE, !.edit_type = MatchEditType(line, ref),
                    !.status = "break"]

\* one iteration of the loop over patch_lines
ScanStep(st, line, ref) ==
    IF startswith(line, <<"@", "@">>)
    THEN LET m == RE_HUNK_HEADER(line)
         IN  IF ~m.matched THEN st ELSE HeaderCounters(st, m)
    ELSE Only({IF Contains(line, ref) THEN Matched(s1, line, ref)
               ELSE IF ref = <<>> THEN [s1 EXCEPT !.status = "raised"]
               ELSE IF ref[1] = "+" /\ Contains(line, lstrip(Tail(ref)))
                    THEN Matched(s1, line, ref)
               ELSE s1 :
               s1 \in {AdvanceCounters(st, line)}})

\* the whole loop: the state at the break, the raise or the end of the lines
RECURSIVE ScanLines(_, _, _, _)
ScanLines(lines, i, st, ref) ==
    IF i > Len(lines) THEN [st |-> st, idx |-> i - 1]
    ELSE Only({IF s1.status = "scan" THEN ScanLines(lines, i + 1, s1, ref)
               ELSE [st |-> s1, idx |-> i] :
               s1 \in {ScanStep(st, lines[i], ref)}})

find_in_file(file, ref) ==
    Only({[raised |-> r.st.status = "raised",
           edit_type |-> r.st.edit_type, found |-> r.st.found,
           source_line_no |-> r.st.source_line_no, target_file |-> file,
           target_line_no |-> r.st.target_line_no, idx |-> r.idx] :
          r \in {ScanLines(splitlines(file.patch), 1, ScanInit, ref)}})

(***************************************************************************)
(* The scan, line by line                                                  *)
(***************************************************************************)
ScanInputs ==
    ({JoinLines(ls) : ls \in SeqsUpTo(LinePool, MaxPatchLen)} \X RefPool)
        \cup ({JoinLines(ExampleLines)} \X ExampleRefs)

IdleSession ==
    /\ changes = <<>>
    /\ diff_files = NoDiffFiles
    /\ fetches = 0
    /\ discussions = <<>>
    /\ last_call = [op |-> "none"]

ScanSpecInit ==
    /\ IdleSession
    /\ \E inp \in ScanInputs : patch = inp[1] /\ reference = inp[2]
    /\ patch_lines = <<>>
    /\ line_idx = 0
    /\ scan = ScanInit
    /\ pc = "call"

FindStart ==
    /\ pc = "call"
    /\ patch_lines' = splitlines(patch)
    /\ scan' = ScanInit
    /\ line_idx' = 0
    /\ pc' = "loop"
    /\ UNCHANGED <<patch, reference>>
    /\ UNCHANGED session_vars

FindLine ==
    /\ pc = "loop"
    /\ line_idx < Len(patch_lines)
    /\ line_idx' = line_idx + 1
    /\ scan' = ScanStep(scan, patch_lines[line_idx + 1], reference)
    /\ pc' = IF scan'.status = "scan" THEN "loop"
             ELSE IF scan'.status = "break" THEN "done" ELSE "raised"
    /\ UNCHANGED <<patch, reference, patch_lines>>
    /\ UNCHANGED session_vars

FindReturn ==
    /\ pc = "loop"
    /\ line_idx = Len(patch_lines)
    /\ pc' = "done"
    /\ UNCHANGED <<patch, reference, patch_lines, line_idx, scan>>
    /\ UNCHANGED session_vars

ScanNext == FindStart \/ FindLine \/ FindReturn

ScanSpec == ScanSpecInit /\ [][ScanNext]_vars

ScanTypeOK ==
    /\ pc \in {"call", "loop", "done", "raised"}
    /\ line_idx \in 0..Len(patch_lines)
    /\ scan.status \in {"scan", "break", "raised"}

(***************************************************************************)
(* The merge request as GitLab serves it                                   *)
(***************************************************************************)
Str(chars) == [type |-> "str", data |-> chars]

Bytes(codes) == [type |-> "bytes", data |-> codes]

\* a file the repository does not hold on that branch: files.get raises GitlabGetError
Missing == [type |-> "missing", data |-> <<>>]

TwoLinesText == Str(<<"a", NL, "b">>)

TwoLinesBytes == Bytes(<<97, 10, 98>>)

NotUtf8Bytes == Bytes(<<255, 10, 98>>)

ExamplePatch == JoinLines(ExampleLines)

ChangeA ==
    [new_path |-> "a.py", old_path |-> "a.py", diff |-> ExamplePatch,
     new_file |-> FALSE, deleted_file |-> FALSE, renamed_file |-> FALSE,
     target_blob |-> TwoLinesText, source_blob |-> TwoLinesText]

ChangeARenamed ==
    [new_path |-> "a.py", old_path |-> "old.py",
     diff |-> JoinLines(<<HeaderA, CtxLine, AddLine>>),
     new_file |-> FALSE, deleted_file |-> FALSE, renamed_file |-> TRUE,
     target_blob |-> Missing, source_blob |-> TwoLinesBytes]

ChangeBin ==
    [new_path |-> "b.bin", old_path |-> "b.bin", diff |-> <<>>,
     new_file |-> FALSE, deleted_file |-> TRUE, renamed_file |-> FALSE,
     target_blob |-> NotUtf8Bytes, source_blob |-> Missing]

ChangeC ==
    [new_path |-> "c.py", old_path |-> "c.py",
     diff |-> JoinLines(<<EmptyLine, OtherLine, AddLine>>),
     new_file |-> TRUE, deleted_file |-> FALSE, renamed_file |-> TRUE,
     target_blob |-> NotUtf8Bytes, source_blob |-> TwoLinesBytes]

ChangeLists ==
    {<<>>, <<ChangeBin>>, <<ChangeA>>, <<ChangeC>>, <<ChangeA, ChangeARenamed>>,
     <<ChangeARenamed, ChangeA>>, <<ChangeBin, ChangeC, ChangeA>>}

\* self.last_diff: the commit range of the merge request's latest diff
last_diff ==
    [base_commit_sha |-> "base", start_commit_sha |-> "start", head_commit_sha |-> "head"]

\* is_valid_file of algo/language_handler
is_valid_file(path) == path \in {"a.py", "c.py", "old.py"}

(***************************************************************************)
(* get_diff_files: the catalog of FilePatchInfo                            *)
(***************************************************************************)
get_pr_file_content(blob) ==
    IF blob = Missing THEN Str(<<>>) ELSE blob

Utf8Decodable(codes) == \A i \in 1..Len(codes) : codes[i] < 128

Chr(code) ==
    CASE code = 10 -> NL [] code = 97 -> "a" [] code = 98 -> "b"

\* bytes.decode(content, 'utf-8'), for content that decodes
Utf8Decode(content) == Str([i \in 1..Len(content.data) |-> Chr(content.data[i])])

DecodeFails(content) == content.type = "bytes" /\ ~Utf8Decodable(content.data)

\* the try block of get_diff_files: the first UnicodeDecodeError leaves the
\* failing side, and the side not yet looked at, as they were
DecodedPair(old_content, new_content) ==
    [base_file |-> IF old_content.type = "bytes" /\ ~DecodeFails(old_content)
                   THEN Utf8Decode(old_content) ELSE old_content,
     head_file |-> IF DecodeFails(old_content) THEN new_content
                   ELSE IF new_content.type = "bytes" /\ ~DecodeFails(new_content)
                   THEN Utf8Decode(new_content) ELSE new_content]

EditTypeOf(diff) ==
    IF diff.new_file THEN "ADDED"
    ELSE IF diff.deleted_file THEN "DELETED"
    ELSE IF diff.renamed_file THEN "RENAMED"
    ELSE "MODIFIED"

FilePatchInfo(diff) ==
    LET c == DecodedPair(get_pr_file_content(diff.target_blob),
                         get_pr_file_content(diff.source_blob))
    IN  [base_file |-> c.base_file, head_file |-> c.head_file,
         patch |-> diff.diff, filename |-> diff.new_path,
         edit_type |-> EditTypeOf(diff),
         old_filename |-> IF diff.old_path = diff.new_path THEN None ELSE diff.old_path]

RECURSIVE get_diff_files(_)
get_diff_files(diffs) ==
    IF diffs = <<>> THEN <<>>
    ELSE IF is_valid_file(diffs[1].new_path)
    THEN <<FilePatchInfo(diffs[1])>> \o get_diff_files(Tail(diffs))
    ELSE get_diff_files(Tail(diffs))

\* `self.diff_files if self.diff_files else self.get_diff_files()`
Memoized(df) == ~df.is_none /\ df.files # <<>>

\* the catalog after the lazy access, and whether it was fetched
LazyDiffFiles(df, diffs) ==
    IF Memoized(df) THEN [files |-> df.files, fetched |-> 0]
    ELSE [files |-> get_diff_files(diffs), fetched |-> 1]

(***************************************************************************)
(* search_line and send_inline_comment                                     *)
(***************************************************************************)
Unbound ==
    [raised |-> TRUE, edit_type |-> "context", found |-> FALSE, source_line_no |-> 0,
     target_file |-> NoFile, target_line_no |-> 0, idx |-> 0]

\* the loop of search_line: every file of that name is scanned, the last
\* result stands, and a raise inside find_in_file ends the loop
RECURSIVE SearchFiles(_, _, _, _)
SearchFiles(files, relevant_file, ref, cur) ==
    IF files = <<>> THEN cur
    ELSE IF files[1].filename = relevant_file
    THEN Only({IF r.raised THEN r ELSE SearchFiles(Tail(files), relevant_file, ref, r) :
               r \in {find_in_file(files[1], ref)}})
    ELSE SearchFiles(Tail(files), relevant_file, ref, cur)

\* found, source_line_no and target_line_no are bound only inside the loop:
\* with no file of that name the return statement raises UnboundLocalError
search_line(files, relevant_file, ref) ==
    IF ref = <<>> THEN Unbound
    ELSE SearchFiles(files, relevant_file, ref, Unbound)

PosBase(target_file) ==
    [position_type |-> "text",
     new_path |-> target_file.filename,
     old_path |-> IF target_file.old_filename # None
                  THEN target_file.old_filename ELSE target_file.filename,
     base_sha |-> last_diff.base_commit_sha,
     start_sha |-> last_diff.start_commit_sha,
     head_sha |-> last_diff.head_commit_sha]

\* pos_obj of send_inline_comment
PosObj_BothLines(edit_type, source_line_no, target_file, target_line_no) ==
    IF edit_type = "deletion"
    THEN [old_line |-> source_line_no - 1, new_line |-> source_line_no - 1]
             @@ PosBase(target_file)
    ELSE [new_line |-> target_line_no - 1, old_line |-> target_line_no - 1]
             @@ PosBase(target_file)

PosObj(edit_type, source_line_no, target_file, target_line_no) ==
    IF edit_type = "deletion"
    THEN [old_line |-> source_line_no - 1] @@ PosBase(target_file)
    ELSE IF edit_type = "addition"
    THEN [new_line |-> target_line_no - 1] @@ PosBase(target_file)
    ELSE [new_line |-> target_line_no - 1, old_line |-> source_line_no - 1]
             @@ PosBase(target_file)

\* send_inline_comment; accepted says whether mr.discussions.create returns
\* or raises.  handed lists the calls made to the publisher.
send_inline_comment(body, edit_type, found, source_line_no, target_file, target_line_no, accepted) ==
    IF ~found
    THEN [raised |-> FALSE, logged |-> TRUE, handed |-> <<>>, created |-> <<>>]
    ELSE LET pos_obj == PosObj(edit_type, source_line_no, target_file, target_line_no)
             call == [edit_type |-> edit_type, source_line_no |-> source_line_no,
                      target_line_no |-> target_line_no, position |-> pos_obj]
         IN  [raised |-> ~accepted, logged |-> FALSE, handed |-> <<call>>,
              created |-> IF accepted THEN <<[body |-> body, position |-> pos_obj]>>
                          ELSE <<>>]

(***************************************************************************)
(* publish_inline_comment                                                  *)
(***************************************************************************)
NoteBody == <<[kind |-> "text", n |-> 0]>>

SuggestionBody == <<[kind |-> "suggestion_fence", n |-> 0], [kind |-> "text", n |-> 0]>>

Paths == {"a.py", "b.bin", "c.py"}

SessionRefs ==
    {RefContext1, RefPlusContext1, RefOldLine, RefNewLineA, RefMissing, RefPlus}

NoSearch == [Unbound EXCEPT !.raised = FALSE]

Init ==
    /\ changes \in ChangeLists
    /\ diff_files = NoDiffFiles
    /\ fetches = 0
    /\ discussions = <<>>
    /\ last_call = [op |-> "none", relevant_file |-> "", ref |-> <<>>,
                    suggestions |-> <<>>, outcome |-> "returned", search |-> NoSearch,
                    logged |-> FALSE, results |-> <<>>, handed |-> <<>>]
    /\ patch = <<>>
    /\ reference = <<>>
    /\ patch_lines = <<>>
    /\ line_idx = 0
    /\ scan = ScanInit
    /\ pc = "idle"

publish_inline_comment(body, relevant_file, relevant_line_in_file, accepted) ==
    \E lazy \in {LazyDiffFiles(diff_files, changes)} :
    \E r \in {search_line(lazy.files, relevant_file, relevant_line_in_file)} :
    \E sent \in {send_inline_comment(body, r.edit_type, r.found, r.source_line_no,
                                    r.target_file, r.target_line_no, accepted)} :
        /\ diff_files' = DiffFiles(lazy.files)
        /\ fetches' = fetches + lazy.fetched
        /\ fetches' <= MaxFetches
        /\ discussions' = IF r.raised THEN discussions ELSE discussions \o sent.created
        /\ Len(discussions') <= MaxDiscussions
        /\ last_call' =
              [op |-> "publish_inline_comment", relevant_file |-> relevant_file,
               ref |-> relevant_line_in_file, suggestions |-> <<>>,
               outcome |-> IF r.raised \/ sent.raised THEN "raised" ELSE "returned",
               search |-> r,
               logged |-> ~r.raised /\ sent.logged,
               results |-> <<>>,
               handed |-> IF r.raised THEN <<>> ELSE sent.handed]
        /\ UNCHANGED changes
        /\ UNCHANGED scan_vars

PublishInlineComment ==
    \E relevant_file \in Paths, ref \in SessionRefs, accepted \in BOOLEAN :
        publish_inline_comment(NoteBody, relevant_file, ref, accepted)

(***************************************************************************)
(* publish_code_suggestions                                                *)
(***************************************************************************)
Suggestion(relevant_file, start, end) ==
    [body |-> SuggestionBody, relevant_file |-> relevant_file,
     relevant_lines_start |-> start, relevant_lines_end |-> end]

\* a suggestion together with the publisher's answer to it
SuggestionCases ==
    {[suggestion |-> Suggestion("a.py", 1, 2), accepted |-> TRUE],
     [suggestion |-> Suggestion("a.py", 1, 2), accepted |-> FALSE],
     [suggestion |-> Suggestion("b.bin", 1, 1), accepted |-> TRUE],
     [suggestion |-> Suggestion("a.py", 3, 5), accepted |-> TRUE]}

\* body.replace('```suggestion', f'```suggestion:-0+{range}')
ReplaceFence(body, range) ==
    [i \in 1..Len(body) |->
        IF body[i].kind = "suggestion_fence"
        THEN [kind |-> "suggestion_counts", n |-> range] ELSE body[i]]

\* the first file of that name, or None (NoFile)
RECURSIVE FirstFile(_, _)
FirstFile(files, relevant_file) ==
    IF files = <<>> THEN NoFile
    ELSE IF files[1].filename = relevant_file THEN files[1]
    ELSE FirstFile(Tail(files), relevant_file)

ContentLines(content) ==
    IF content.type = "bytes" THEN SplitFrom(content.data, 10, 1, <<>>, <<>>)
    ELSE splitlines(content.data)

\* lines[k] of a Python list: a negative k counts from the end
IndexInRange(lines, k) == -Len(lines) <= k /\ k < Len(lines)

\* the try block for one suggestion; acc carries self.diff_files, the fetch
\* count, the discussions and what happened so far
SuggestionStep(acc, diffs, suggestion, accepted) ==
    LET lazy == LazyDiffFiles(acc.diff_files, diffs)
        a1 == [acc EXCEPT !.diff_files = DiffFiles(lazy.files), !.fetches = @ + lazy.fetched]
        target_file == FirstFile(lazy.files, suggestion.relevant_file)
        range == suggestion.relevant_lines_end - suggestion.relevant_lines_start
        body == ReplaceFence(suggestion.body, range)
    IN  IF target_file = NoFile
        THEN [a1 EXCEPT !.results = Append(@, "AttributeError")]
        ELSE IF ~IndexInRange(ContentLines(target_file.head_file),
                              suggestion.relevant_lines_start - 1)
        THEN [a1 EXCEPT !.results = Append(@, "IndexError")]
        ELSE LET sent == send_inline_comment(body, "addition", TRUE, None, target_file,
                                             suggestion.relevant_lines_start + 1, accepted)
             IN  [a1 EXCEPT !.discussions = @ \o sent.created,
                            !.handed = @ \o sent.handed,
                            !.results = Append(@, IF sent.raised THEN "PublishError"
                                                  ELSE "published")]

RECURSIVE RunSuggestions(_, _, _)

\* except Exception: logging.exception(...), and the for loop goes on
OnException_Propagates(acc, diffs, rest) == [acc EXCEPT !.raised = TRUE]

OnException(acc, diffs, rest) == RunSuggestions(acc, diffs, rest)

RunSuggestions(acc, diffs, calls) ==
    IF calls = <<>> THEN acc
    ELSE Only({IF a1.results[Len(a1.results)] # "published"
               THEN OnException(a1, diffs, Tail(calls))
               ELSE RunSuggestions(a1, diffs, Tail(calls)) :
               a1 \in {SuggestionStep(acc, diffs, calls[1].suggestion, calls[1].accepted)}})

publish_code_suggestions(calls) ==
    \E acc \in {RunSuggestions([diff_files |-> diff_files, fetches |-> fetches,
                                 discussions |-> discussions, results |-> <<>>,
                                 handed |-> <<>>, raised |-> FALSE], changes, calls)} :
        /\ diff_files' = acc.diff_files
        /\ fetches' = acc.fetches
        /\ fetches' <= MaxFetches
        /\ discussions' = acc.discussions
        /\ Len(discussions') <= MaxDiscussions
        /\ last_call' =
              [op |-> "publish_code_suggestions", relevant_file |-> "", ref |-> <<>>,
               suggestions |-> calls,
               outcome |-> IF acc.raised THEN "raised" ELSE "returned",
               search |-> NoSearch, logged |-> FALSE,
               results |-> acc.results, handed |-> acc.handed]
        /\ UNCHANGED changes
        /\ UNCHANGED scan_vars

PublishCodeSuggestions ==
    \E calls \in SeqsUpTo(SuggestionCases, MaxSuggestions) :
        publish_code_suggestions(calls)

Next == PublishInlineComment \/ PublishCodeSuggestions

Spec == Init /\ [][Next]_vars

TypeOK ==
    /\ fetches \in 0..MaxFetches
    /\ Len(discussions) <= MaxDiscussions
    /\ last_call.outcome \in {"returned", "raised"}
    /\ pc = "idle"

(***************************************************************************)
(* Properties of the session                                               *)
(***************************************************************************)
LastInline == last_call.op = "publish_inline_comment"

LastSuggestions == last_call.op = "publish_code_suggestions"

HasField(p, name) == name \in DOMAIN p

\* C3: every position descriptor handed to the publisher has its line
\* fields fixed by the edit type: an addition carries only new_line, equal
\* to new_line_no - 1; a deletion carries only old_line, equal to
\* old_line_no - 1; a context match carries both, each the matched counter
\* minus 1.  The counters and edit type of an inline comment are those
\* search_line returned; a code suggestion is an addition at
\* relevant_lines_start + 1.  In the example patch 'new line A'
\* (new_line_no = 3) yields new_line = 2 with old_line unset.
C3_PositionLineFields ==
    /\ \A i \in 1..Len(last_call.handed) :
          LET h == last_call.handed[i]
              p == h.position
          IN  /\ h.edit_type = "addition" =>
                    /\ HasField(p, "new_line") /\ ~HasField(p, "old_line")
                    /\ p.new_line = h.target_line_no - 1
              /\ h.edit_type = "deletion" =>
                    /\ HasField(p, "old_line") /\ ~HasField(p, "new_line")
                    /\ p.old_line = h.source_line_no - 1
              /\ h.edit_type \notin {"addition", "deletion"} =>
                    /\ HasField(p, "new_line") /\ HasField(p, "old_line")
                    /\ p.new_line = h.target_line_no - 1
                    /\ p.old_line = h.source_line_no - 1
              /\ LastInline =>
                    /\ h.edit_type = last_call.search.edit_type
                    /\ h.source_line_no = last_call.search.source_line_no
                    /\ h.target_line_no = last_call.search.target_line_no
              /\ LastSuggestions =>
                    /\ h.edit_type = "addition"
                    /\ \E k \in 1..Len(last_call.suggestions) :
                          h.target_line_no =
                              last_call.suggestions[k].suggestion.relevant_lines_start + 1
    /\ (LastInline /\ last_call.ref = RefNewLineA /\ last_call.search.found
            /\ last_call.search.target_file.patch = ExamplePatch)
        => /\ Len(last_call.handed) = 1
           /\ last_call.handed[1].target_line_no = 3
           /\ last_call.handed[1].position.new_line = 2
           /\ ~HasField(last_call.handed[1].position, "old_line")

C3_Witness ==
    /\ LastInline
    /\ last_call.ref = RefNewLineA
    /\ last_call.search.found
    /\ last_call.search.target_file.patch = ExamplePatch
    /\ Len(last_call.handed) = 1
    /\ last_call.handed[1].edit_type = "addition"
    /\ last_call.handed[1].position.new_line = 2
    /\ Len(discussions) > 0
    /\ discussions[Len(discussions)].position = last_call.handed[1].position

\* a content line the scan would accept for this reference
LineMatches(line, ref) ==
    /\ ~startswith(line, <<"@", "@">>)
    /\ \/ Contains(line, ref)
       \/ ref[1] = "+" /\ Contains(line, lstrip(Tail(ref)))

NoLineMatches(files, relevant_file, ref) ==
    \A i \in 1..Len(files) :
        files[i].filename = relevant_file =>
            \A j \in 1..Len(splitlines(files[i].patch)) :
                ~LineMatches(splitlines(files[i].patch)[j], ref)

\* C4: not finding a reference is never an error: when no line of the diff
\* matches, the case of no catalog entry for the path included, search_line
\* returns found = false without raising and publish_inline_comment logs,
\* hands nothing to the publisher and returns normally.
C4_NotFoundIsNotAnError ==
    (LastInline /\ NoLineMatches(diff_files.files, last_call.relevant_file, last_call.ref))
        => /\ last_call.outcome = "returned"
           /\ ~last_call.search.raised
           /\ ~last_call.search.found
           /\ last_call.logged
           /\ last_call.handed = <<>>

\* C6: within one session the catalog is built exactly once, also when the
\* built catalog is empty: get_diff_files never runs a second time.
C6_CatalogBuiltOnce == fetches <= 1

ValidChanges == SelectSeq(changes, LAMBDA d : is_valid_file(d.new_path))

\* C8: every catalog entry's old_content and new_content is a text string,
\* and a side whose bytes failed to decode is the empty string.
C8_UndecodableSideIsEmptyText ==
    ~diff_files.is_none =>
        \A i \in 1..Len(diff_files.files) :
            LET f == diff_files.files[i]
                d == ValidChanges[i]
            IN  /\ f.base_file.type = "str"
                /\ f.head_file.type = "str"
                /\ DecodeFails(d.target_blob) => f.base_file = Str(<<>>)
                /\ DecodeFails(d.source_blob) => f.head_file = Str(<<>>)

\* C7: in publish_code_suggestions a failing suggestion (unknown file, line
\* index out of range, publish call raising) does not stop the loop: every
\* suggestion of the list is attempted, the comments published before and
\* during the call stay published, and the call returns without raising.
C7_BatchIsolation ==
    [][last_call'.op = "publish_code_suggestions" =>
        /\ last_call'.outcome = "returned"
        /\ Len(last_call'.results) = Len(last_call'.suggestions)
        /\ Len(discussions') >= Len(discussions)
        /\ SubSeq(discussions', 1, Len(discussions)) = discussions
        /\ Len(discussions') - Len(discussions) =
              Cardinality({i \in 1..Len(last_call'.results) :
                              last_call'.results[i] = "published"})
    ]_vars

C7_Witness ==
    /\ LastSuggestions
    /\ Len(last_call.results) = 2
    /\ last_call.results[1] = "PublishError"
    /\ last_call.results[2] = "published"
    /\ Len(discussions) = 2

\* C9: whenever search_line reports a match, the edit type is that of the
\* matched patch line's leading character ('+' addition, '-' deletion,
\* anything else context), never that of the reference: a reference '+x'
\* matched through the stripped fallback on a context line is reported as
\* context and its position carries both old_line and new_line.
C9_EditTypeFromMatchedLine ==
    (LastInline /\ ~last_call.search.raised /\ last_call.search.found) =>
        LET line == splitlines(last_call.search.target_file.patch)[last_call.search.idx]
            type == last_call.search.edit_type
        IN  /\ line[1] = "+" => type = "addition"
            /\ line[1] = "-" => type = "deletion"
            /\ line[1] \notin {"+", "-"} => type = "context"
            /\ (last_call.ref[1] = "+" /\ line[1] = " ") =>
                  /\ type = "context"
                  /\ Len(last_call.handed) = 1
                  /\ HasField(last_call.handed[1].position, "old_line")
                  /\ HasField(last_call.handed[1].position, "new_line")

C9_Witness ==
    /\ LastInline
    /\ last_call.ref = RefPlusContext1
    /\ last_call.search.found
    /\ last_call.search.idx = 2
    /\ last_call.search.edit_type = "context"
    /\ Len(last_call.handed) = 1
    /\ last_call.handed[1].position.old_line = 1
    /\ last_call.handed[1].position.new_line = 1

(***************************************************************************)
(* Properties of the scan                                                  *)
(***************************************************************************)
IsHunkHeader(line) == startswith(line, <<"@", "@">>) /\ RE_HUNK_HEADER(line).matched

IsCounted(line) ==
    startswith(line, <<" ">>) \/ startswith(line, <<"+">>) \/ startswith(line, <<"-">>)

ScanReturned == pc = "done"

ScanMatched == pc = "done" /\ scan.found

\* the content lines (not '@@' lines) that contain the reference verbatim
VerbatimLines ==
    {i \in 1..Len(patch_lines) :
        /\ ~startswith(patch_lines[i], <<"@", "@">>)
        /\ Contains(patch_lines[i], reference)}

\* C1: for a reference starting with '+', when some line contains the
\* reference verbatim the reported match is the first such line, never an
\* earlier line that only contains the stripped form.
C1_FirstVerbatimLineWins ==
    (ScanMatched /\ reference[1] = "+" /\ VerbatimLines # {})
        => (line_idx \in VerbatimLines /\ \A i \in VerbatimLines : line_idx <= i)

\* C2 as stated: a context line right after a well-formed header '-a +b' is
\* reported with old_line_no = a and new_line_no = b; in the example patch
\* 'context1' is reported at (1, 1) and 'old line' as a deletion at old 2.
C2_FirstLineAtDeclaredStart ==
    /\ (ScanMatched /\ line_idx >= 2 /\ IsHunkHeader(patch_lines[line_idx - 1])
            /\ startswith(patch_lines[line_idx], <<" ">>))
        => LET m == RE_HUNK_HEADER(patch_lines[line_idx - 1])
           IN  /\ scan.source_line_no = int(m.start_old)
               /\ scan.target_line_no = int(m.start_new)
    /\ (ScanReturned /\ patch_lines = ExampleLines /\ reference = RefContext1)
        => (scan.found /\ scan.edit_type = "context"
              /\ scan.source_line_no = 1 /\ scan.target_line_no = 1)
    /\ (ScanReturned /\ patch_lines = ExampleLines /\ reference = RefOldLine)
        => (scan.found /\ scan.edit_type = "deletion" /\ scan.source_line_no = 2)

\* C2 amended: the counters are read after the matched line's own increment,
\* so a context line right after a well-formed header '-a +b' is reported
\* with old_line_no = a + 1 and new_line_no = b + 1; in the example patch
\* 'context1' is reported at (2, 2) and 'old line' as a deletion at old 3.
C2_FirstLineOnePastDeclaredStart ==
    /\ (ScanMatched /\ line_idx >= 2 /\ IsHunkHeader(patch_lines[line_idx - 1])
            /\ startswith(patch_lines[line_idx], <<" ">>))
        => LET m == RE_HUNK_HEADER(patch_lines[line_idx - 1])
           IN  /\ scan.source_line_no = int(m.start_old) + 1
               /\ scan.target_line_no = int(m.start_new) + 1
    /\ (ScanReturned /\ patch_lines = ExampleLines /\ reference = RefContext1)
        => (scan.found /\ scan.edit_type = "context"
              /\ scan.source_line_no = 2 /\ scan.target_line_no = 2)
    /\ (ScanReturned /\ patch_lines = ExampleLines /\ reference = RefOldLine)
        => (scan.found /\ scan.edit_type = "deletion" /\ scan.source_line_no = 3)

C2_Witness ==
    /\ ScanMatched
    /\ line_idx = 2
    /\ patch_lines[1] = HeaderA
    /\ patch_lines[2] = CtxLine
    /\ scan.source_line_no = 4
    /\ scan.target_line_no = 6

\* C5: only a counted content line (' ', '+' or '-') that comes after a hunk
\* header is ever returned as the match, and lines before the first header
\* leave the counters at their initial value.
C5_OnlyCountedLinesAfterHeaderMatch ==
    /\ ScanMatched
        => /\ IsCounted(patch_lines[line_idx])
           /\ \E j \in 1..(line_idx - 1) : IsHunkHeader(patch_lines[j])
    /\ (pc \in {"loop", "done"}
            /\ \A j \in 1..line_idx : ~IsHunkHeader(patch_lines[j]))
        => (scan.source_line_no = 0 /\ scan.target_line_no = 0)

\* C10: every scanned line changes the (old, new) counters by a fixed rule:
\* a well-formed header sets them to its declared starts, a context line
\* adds 1 to both, an addition adds 1 to new only, a deletion adds 1 to old
\* only, and any other line, a malformed '@@' line included, leaves both
\* unchanged and does not end the scan; so between headers neither counter
\* ever decreases.
C10_CounterRule ==
    [][line_idx' = line_idx + 1 =>
        LET line == patch_lines'[line_idx']
            old == scan.source_line_no
            new == scan.target_line_no
            old2 == scan'.source_line_no
            new2 == scan'.target_line_no
        IN  /\ IsHunkHeader(line) =>
                /\ old2 = int(RE_HUNK_HEADER(line).start_old)
                /\ new2 = int(RE_HUNK_HEADER(line).start_new)
            /\ (startswith(line, <<"@", "@">>) /\ ~IsHunkHeader(line)) =>
                (old2 = old /\ new2 = new /\ pc' = "loop")
            /\ (~startswith(line, <<"@", "@">>) /\ startswith(line, <<" ">>)) =>
                (old2 = old + 1 /\ new2 = new + 1)
            /\ startswith(line, <<"+">>) => (old2 = old /\ new2 = new + 1)
            /\ startswith(line, <<"-">>) => (old2 = old + 1 /\ new2 = new)
            /\ (~startswith(line, <<"@", "@">>) /\ ~IsCounted(line)) =>
                (old2 = old /\ new2 = new)
            /\ ~IsHunkHeader(line) => (old2 >= old /\ new2 >= new)
    ]_vars

C10_Witness ==
    /\ pc = "loop"
    /\ line_idx = 3
    /\ patch_lines[1] = HeaderB
    /\ patch_lines[2] = DelLine
    /\ patch_lines[3] = BadHeader
    /\ scan.source_line_no = 11
    /\ scan.target_line_no = 20
====
